---------------------------- MODULE Spec2Model ----------------------------
(***************************************************************************)
(* A model of pycatan's BoardRenderer (src/src/pycatan/board/              *)
(* _board_renderer.py): the player colour state, the glyph compositor, the *)
(* projection functions and the canvas compositor.                         *)
(*                                                                         *)
(* Python values are modelled as follows.                                  *)
(*   Coords(q, r)            the tuple <<q, r>>                            *)
(*   a path's coordinates    the set {c1, c2} of its two corners           *)
(*   stylize(t, fg(f)+bg(b)) the tuple <<t, f, b>>; "" is "no foreground"  *)
(*   a dict                  a function, its keys the function's domain    *)
(*   a list                  a sequence (Python index i is TLA+ index i+1) *)
(*   Building or None        a record; None is the record None             *)
(***************************************************************************)
EXTENDS Integers, Sequences, FiniteSets, TLC

VARIABLES
    palette,      \* the class list BoardRenderer.DEFAULT_PLAYER_COLORS
    maps,         \* the dict objects; maps[1] is __init__'s default argument {}
    renderers,    \* the BoardRenderer instances, in order of construction
    hist,         \* per instance: how it was built, what it assigned (history)
    last,         \* the last operation and its outcome
    threads,      \* the two concurrent _get_player_color calls
    board,        \* the board get_board_as_string is rendering
    render,       \* get_board_as_string's position, buffer and stamp log
    geom          \* input and output of the last projection call

otherVars == <<threads, board, render, geom>>
vars == <<palette, maps, renderers, hist, last, threads, board, render, geom>>

(***************************************************************************)
(* Bounds of the model.                                                    *)
(***************************************************************************)
NumPlayers == 5
MaxRenderers == 2
MaxCoord == 5
MaxShift == 2

Players == 1..NumPlayers

(***************************************************************************)
(* Class constants.                                                        *)
(***************************************************************************)
DEFAULT_PLAYER_COLORS == <<"#00c40d", "#ff00d9", "#0000FF", "#00FFFF">>

HexTypes == {"FIELDS", "FOREST", "PASTURE", "HILLS", "MOUNTAINS", "DESERT"}

DEFAULT_HEX_COLORS ==
    [t \in HexTypes |->
        CASE t = "FIELDS" -> "#ffea29"
          [] t = "FOREST" -> "#005e09"
          [] t = "PASTURE" -> "#52ff62"
          [] t = "HILLS" -> "#cc1f0c"
          [] t = "MOUNTAINS" -> "#7a7a7a"
          [] t = "DESERT" -> "#ffe5a3"]

Resources == {"GRAIN", "LUMBER", "WOOL", "BRICK", "ORE"}

DEFAULT_RESOURCE_COLORS ==
    [t \in Resources |->
        CASE t = "GRAIN" -> "#ffea29"
          [] t = "LUMBER" -> "#005e09"
          [] t = "WOOL" -> "#52ff62"
          [] t = "BRICK" -> "#cc1f0c"
          [] t = "ORE" -> "#7a7a7a"]

WATER_COLOR == "#2387de"

\* Building.owner / Building.building_type; None stands for "no building".
None == [owner |-> 0, building_type |-> "None"]

Building(owner, building_type) ==
    [owner |-> owner, building_type |-> building_type]

\* stylize(text, fg(fore) + bg(back))
stylize(text, fore, back) == <<text, fore, back>>

(***************************************************************************)
(* Colour policy.                                                          *)
(***************************************************************************)
\* BoardRenderer(player_color_map, hex_color_map, resource_color_map): the
\* new instance keeps a reference to the class list (unused) and to the dict
\* it was given (pcm), and the two colour tables it was given.
BoardRenderer(pcm, hex_color_map, resource_color_map) ==
    [_unused_player_colors |-> "DEFAULT_PLAYER_COLORS",
     player_color_map |-> pcm,
     hex_color_map |-> hex_color_map,
     resource_color_map |-> resource_color_map]

pop_keeps_item(unused) ==
    IF unused = <<>>
    THEN [ok |-> FALSE, val |-> "IndexError", unused |-> unused]
    ELSE [ok |-> TRUE, val |-> Head(unused), unused |-> unused]

\* self._unused_player_colors.pop(0): the item removed and the list
\* afterwards; on an empty list it raises IndexError.
pop(unused) ==
    IF unused = <<>>
    THEN [ok |-> FALSE, val |-> "IndexError", unused |-> unused]
    ELSE [ok |-> TRUE, val |-> Head(unused), unused |-> Tail(unused)]

\* _get_player_color on the dict pcm and the list unused: the value returned
\* (or the error raised) and both objects afterwards.
_get_player_color(pcm, unused, player) ==
    IF player \notin DOMAIN pcm
    THEN LET popped == pop(unused) IN
         IF ~popped.ok
         THEN [ok |-> FALSE, val |-> popped.val, pcm |-> pcm, unused |-> unused]
         ELSE [ok |-> TRUE, val |-> popped.val,
               pcm |-> (player :> popped.val) @@ pcm, unused |-> popped.unused]
    ELSE [ok |-> TRUE, val |-> pcm[player], pcm |-> pcm, unused |-> unused]

_get_path_harbor_first(self, chars, path, harbors, pcm, unused) ==
    LET back == self.hex_color_map["DESERT"]
        owned == path.building # None
        call == _get_player_color(pcm, unused, path.building.owner)
        fore == IF path.path_coords \in harbors THEN "#000000"
                ELSE IF owned THEN call.val
                ELSE "#9c7500"
    IN  IF owned /\ ~call.ok
        THEN [ok |-> FALSE, val |-> call.val, pcm |-> pcm, unused |-> unused]
        ELSE [ok |-> TRUE,
              val |-> [i \in 1..Len(chars) |-> stylize(chars[i], fore, back)],
              pcm |-> IF owned THEN call.pcm ELSE pcm,
              unused |-> IF owned THEN call.unused ELSE unused]

\* _get_path(chars, path, board): harbors is the key set of board.harbors.
_get_path(self, chars, path, harbors, pcm, unused) ==
    LET back == self.hex_color_map["DESERT"]
        owned == path.building # None
        call == _get_player_color(pcm, unused, path.building.owner)
        fore == IF owned THEN call.val
                ELSE IF path.path_coords \in harbors THEN "#000000"
                ELSE "#9c7500"
    IN  IF owned /\ ~call.ok
        THEN [ok |-> FALSE, val |-> call.val, pcm |-> pcm, unused |-> unused]
        ELSE [ok |-> TRUE,
              val |-> [i \in 1..Len(chars) |-> stylize(chars[i], fore, back)],
              pcm |-> IF owned THEN call.pcm ELSE pcm,
              unused |-> IF owned THEN call.unused ELSE unused]

\* _get_intersection(char, intersection)
_get_intersection(self, char, intersection, pcm, unused) ==
    LET back == self.hex_color_map["DESERT"]
        owned == intersection.building # None
        call == _get_player_color(pcm, unused, intersection.building.owner)
        ch == IF ~owned THEN char
              ELSE IF intersection.building.building_type = "SETTLEMENT"
                   THEN "s" ELSE "c"
    IN  IF owned /\ ~call.ok
        THEN [ok |-> FALSE, val |-> call.val, pcm |-> pcm, unused |-> unused]
        ELSE [ok |-> TRUE,
              val |-> <<stylize(ch, IF owned THEN call.val ELSE "#9c7500", back)>>,
              pcm |-> IF owned THEN call.pcm ELSE pcm,
              unused |-> IF owned THEN call.unused ELSE unused]

(***************************************************************************)
(* The objects of the colour state.                                        *)
(***************************************************************************)
\* The dict self.player_color_map refers to.
Pcm(r) == maps[renderers[r].player_color_map]

\* The list self._unused_player_colors refers to: always the class list.
Unused(r) == palette

\* The dicts a caller passes as player_color_map: none (the default), an empty
\* dict of its own, or one player pre-set to a colour.
PresetColors == {"#00c40d", "#FF0000"}
PresetMaps == {<<>>} \cup {(1 :> c) : c \in PresetColors}

\* The dicts a caller passes as hex_color_map.
HexColorMaps ==
    {DEFAULT_HEX_COLORS, [DEFAULT_HEX_COLORS EXCEPT !["DESERT"] = "#c2b280"]}

\* The dicts a caller passes as resource_color_map: the default, one with
\* another colour for ORE, one without WOOL.
ResourceColorMaps ==
    {DEFAULT_RESOURCE_COLORS,
     [DEFAULT_RESOURCE_COLORS EXCEPT !["ORE"] = "#123456"],
     [t \in Resources \ {"WOOL"} |-> DEFAULT_RESOURCE_COLORS[t]]}

\* The colour tables a caller passes together: the defaults, tables with
\* colours of its own, and a resource table without WOOL.
ColorTables ==
    {<<DEFAULT_HEX_COLORS, DEFAULT_RESOURCE_COLORS>>,
     <<[DEFAULT_HEX_COLORS EXCEPT !["DESERT"] = "#c2b280"],
       [DEFAULT_RESOURCE_COLORS EXCEPT !["ORE"] = "#123456"]>>,
     <<DEFAULT_HEX_COLORS,
       [t \in Resources \ {"WOOL"} |-> DEFAULT_RESOURCE_COLORS[t]]>>}

NoCall == [op |-> "none", r |-> 0, player |-> 0, ok |-> TRUE, val |-> <<>>,
           first |-> FALSE, known |-> FALSE, input |-> <<>>]

NoThreads == <<>>
NoBoard == <<>>
NoRender == <<>>
NoGeom == <<>>

ColorInit ==
    /\ palette = DEFAULT_PLAYER_COLORS
    /\ maps = << <<>> >>
    /\ renderers = <<>>
    /\ hist = <<>>
    /\ last = NoCall

Init ==
    /\ ColorInit
    /\ threads = NoThreads
    /\ board = NoBoard
    /\ render = NoRender
    /\ geom = NoGeom

\* renderer = BoardRenderer(): player_color_map is the default argument, the
\* one dict object created when the class body was executed.
ConstructDefault ==
    /\ Len(renderers) < MaxRenderers
    /\ renderers' = Append(renderers,
                           BoardRenderer(1, DEFAULT_HEX_COLORS,
                                         DEFAULT_RESOURCE_COLORS))
    /\ hist' = Append(hist, [dflt |-> TRUE, fresh |-> TRUE, lazy |-> {},
                             first |-> <<>>])
    /\ last' = [NoCall EXCEPT !.op = "construct", !.r = Len(renderers) + 1]
    /\ UNCHANGED <<palette, maps>>
    /\ UNCHANGED otherVars

\* renderer = BoardRenderer(player_color_map=m) with a dict m of the caller's.
ConstructWithMap ==
    /\ Len(renderers) < MaxRenderers
    /\ \E m \in PresetMaps, tables \in ColorTables :
          /\ maps' = Append(maps, m)
          /\ renderers' = Append(renderers,
                                 BoardRenderer(Len(maps) + 1, tables[1],
                                               tables[2]))
    /\ hist' = Append(hist, [dflt |-> FALSE, fresh |-> TRUE, lazy |-> {},
                             first |-> <<>>])
    /\ last' = [NoCall EXCEPT !.op = "construct", !.r = Len(renderers) + 1]
    /\ UNCHANGED palette
    /\ UNCHANGED otherVars

\* The history of instance r after a call for player that returned res.
Recorded(r, player, res) ==
    [hist[r] EXCEPT
        !.fresh = FALSE,
        !.lazy = IF res.ok /\ player \notin DOMAIN Pcm(r)
                 THEN @ \cup {player} ELSE @,
        !.first = IF res.ok /\ player \notin DOMAIN @
                  THEN (player :> res.val) @@ @ ELSE @]

\* Players are opaque identities: a call names a player some dict already
\* holds, or the lowest-numbered player no dict holds yet.
KnownPlayers == UNION {DOMAIN maps[k] : k \in 1..Len(maps)}
CallPlayers ==
    KnownPlayers \cup {p \in Players : \A q \in Players \ KnownPlayers : p <= q}

\* renderer._get_player_color(player)
GetPlayerColor ==
    \E r \in 1..Len(renderers), player \in CallPlayers :
        LET res == _get_player_color(Pcm(r), Unused(r), player) IN
        /\ palette' = res.unused
        /\ maps' = [maps EXCEPT ![renderers[r].player_color_map] = res.pcm]
        /\ hist' = [hist EXCEPT ![r] = Recorded(r, player, res)]
        /\ last' = [op |-> "_get_player_color", r |-> r, player |-> player,
                    ok |-> res.ok, val |-> res.val, first |-> hist[r].fresh,
                    known |-> player \in DOMAIN Pcm(r), input |-> <<>>]
        /\ UNCHANGED renderers
        /\ UNCHANGED otherVars

\* The paths and harbor key sets _get_path is called with: a path with or
\* without a road, on or off a harbor edge.
PathCoords == {<<1, -1>>, <<1, 0>>}
TestPaths ==
    {[path_coords |-> PathCoords, building |-> b] :
        b \in {None} \cup {Building(p, "ROAD") : p \in CallPlayers}}
TestHarbors == {{}, {PathCoords}}
TestChars == {<<"-", "-">>, <<"|">>}

\* renderer._get_path(chars, path, board)
GetPath ==
    \E r \in 1..Len(renderers), path \in TestPaths, harbors \in TestHarbors,
       chars \in TestChars :
        LET res == _get_path(renderers[r], chars, path, harbors, Pcm(r), Unused(r))
            player == path.building.owner
        IN
        /\ palette' = res.unused
        /\ maps' = [maps EXCEPT ![renderers[r].player_color_map] = res.pcm]
        /\ hist' = [hist EXCEPT ![r] =
                        IF path.building # None
                        THEN Recorded(r, player, [ok |-> res.ok,
                                 val |-> IF res.ok THEN res.pcm[player] ELSE ""])
                        ELSE @]
        /\ last' = [op |-> "_get_path", r |-> r, player |-> player,
                    ok |-> res.ok, val |-> res.val, first |-> hist[r].fresh,
                    known |-> player \in DOMAIN Pcm(r),
                    input |-> <<chars, path, harbors>>]
        /\ UNCHANGED renderers
        /\ UNCHANGED otherVars

Next ==
    \/ ConstructDefault
    \/ ConstructWithMap
    \/ GetPlayerColor

Spec == Init /\ [][Next]_vars

(***************************************************************************)
(* _get_path on one renderer.  The class list may already have lost colours *)
(* to earlier renderers of the process.                                    *)
(***************************************************************************)
Suffixes(s) == {SubSeq(s, i, Len(s)) : i \in 1..Len(s) + 1}

PathInit ==
    /\ palette \in Suffixes(DEFAULT_PLAYER_COLORS)
    /\ \E m \in PresetMaps, hcm \in HexColorMaps :
          /\ maps = << <<>>, m >>
          /\ renderers = <<BoardRenderer(2, hcm, DEFAULT_RESOURCE_COLORS)>>
    /\ hist = <<[dflt |-> FALSE, fresh |-> TRUE, lazy |-> {}, first |-> <<>>]>>
    /\ last = NoCall
    /\ threads = NoThreads
    /\ board = NoBoard
    /\ render = NoRender
    /\ geom = NoGeom

NextPath == GetPath

SpecPath == PathInit /\ [][NextPath]_vars

(***************************************************************************)
(* Two threads run _get_player_color on the same renderer with no lock.    *)
(* The interpreter may switch threads between the membership test (line    *)
(* 57), the pop and the store (line 58) and the read that is returned      *)
(* (line 59).                                                              *)
(***************************************************************************)
Threads == {1, 2}
raceFrame == <<renderers, hist, last, board, render, geom>>
RacePlayers == {1, 2}

RaceInit ==
    /\ palette \in Suffixes(DEFAULT_PLAYER_COLORS)
    /\ \E m \in PresetMaps :
          /\ maps = << <<>>, m >>
          /\ renderers = <<BoardRenderer(2, DEFAULT_HEX_COLORS,
                                       DEFAULT_RESOURCE_COLORS)>>
          /\ \E ps \in [Threads -> RacePlayers] :
                threads = [t \in Threads |->
                             [pc |-> "check", player |-> ps[t], absent |-> FALSE,
                              popped |-> "", ret |-> "",
                              palette0 |-> palette, keys0 |-> DOMAIN m]]
    /\ hist = <<[dflt |-> FALSE, fresh |-> TRUE, lazy |-> {}, first |-> <<>>]>>
    /\ last = NoCall
    /\ board = NoBoard
    /\ render = NoRender
    /\ geom = NoGeom

\* line 57: if player not in self.player_color_map
ThreadCheck(t) ==
    /\ threads[t].pc = "check"
    /\ LET absent == threads[t].player \notin DOMAIN Pcm(1) IN
       threads' = [threads EXCEPT ![t].absent = absent,
                                  ![t].pc = IF absent THEN "pop" ELSE "read"]
    /\ UNCHANGED <<palette, maps>>
    /\ UNCHANGED raceFrame

\* line 58, right-hand side: self._unused_player_colors.pop(0)
ThreadPop(t) ==
    /\ threads[t].pc = "pop"
    /\ LET res == pop(Unused(1)) IN
       /\ palette' = res.unused
       /\ threads' = [threads EXCEPT ![t].popped = IF res.ok THEN res.val ELSE @,
                                     ![t].pc = IF res.ok THEN "store" ELSE "raised"]
    /\ UNCHANGED maps
    /\ UNCHANGED raceFrame

\* line 58, the assignment: self.player_color_map[player] = <the popped item>
ThreadStore(t) ==
    /\ threads[t].pc = "store"
    /\ maps' = [maps EXCEPT ![renderers[1].player_color_map] =
                    (threads[t].player :> threads[t].popped) @@ @]
    /\ threads' = [threads EXCEPT ![t].pc = "read"]
    /\ UNCHANGED palette
    /\ UNCHANGED raceFrame

\* line 59: return self.player_color_map[player]
ThreadReturn(t) ==
    /\ threads[t].pc = "read"
    /\ threads' = [threads EXCEPT ![t].ret = Pcm(1)[threads[t].player],
                                  ![t].pc = "done"]
    /\ UNCHANGED <<palette, maps>>
    /\ UNCHANGED raceFrame

NextRace ==
    \/ \E t \in Threads : ThreadCheck(t)
    \/ \E t \in Threads : ThreadPop(t)
    \/ \E t \in Threads : ThreadStore(t)
    \/ \E t \in Threads : ThreadReturn(t)

SpecRace == RaceInit /\ [][NextRace]_vars

(***************************************************************************)
(* Projection.                                                             *)
(***************************************************************************)
\* Coords.__add__
Add(a, b) == <<a[1] + b[1], a[2] + b[2]>>

\* int(n / d) for an integer n and d > 0: Python's int() drops the fraction,
\* towards zero.
int(n, d) == IF n >= 0 THEN n \div d ELSE -((-n) \div d)

\* 1.34 * q + 0.67 * r, in hundredths (exact: the float result is within
\* 1e-12 of it and it is either 0 or at least 0.01 away from an integer).
Scaled(coords) == 134 * coords[1] + 67 * coords[2]

_get_hex_center_coords_floor(coords) ==
    <<3 * coords[2], -(Scaled(coords) \div 100)>>

\* _get_hex_center_coords(coords): (int(3 * r), -int(1.34 * q + 0.67 * r))
_get_hex_center_coords(coords) ==
    <<3 * coords[2], -int(Scaled(coords), 100)>>

\* The six offsets from a hex to its corners, as _get_hex lists them.
corner_offsets ==
    << <<1, -1>>, <<1, 0>>, <<0, 1>>, <<-1, 1>>, <<-1, 0>>, <<0, -1>> >>

\* Hex.CONNECTED_CORNER_OFFSETS: from a corner to the six hex slots and
\* corners around it, the same six directions.
CONNECTED_CORNER_OFFSETS == corner_offsets

_get_harbor_coords_no_filter(path_coords, hexes) ==
    LET connected_coords ==
            [k \in 1..2 |-> [n \in 1..6 |->
                Add(CONNECTED_CORNER_OFFSETS[n], path_coords[k])]]
        overlap == SelectSeq(connected_coords[1],
                       LAMBDA c : \E n \in 1..6 : connected_coords[2][n] = c)
    IN  IF overlap = <<>>
        THEN [ok |-> FALSE, val |-> "IndexError", overlap |-> overlap]
        ELSE [ok |-> TRUE, overlap |-> overlap,
              val |-> Add(_get_hex_center_coords(overlap[1]), <<2, 1>>)]

\* _get_harbor_coords(harbor, board): path_coords is harbor.path_coords in
\* the order it is iterated, hexes the key set of board.hexes.  overlap[0] of
\* an empty list raises IndexError.
_get_harbor_coords(path_coords, hexes) ==
    LET connected_coords ==
            [k \in 1..2 |-> [n \in 1..6 |->
                Add(CONNECTED_CORNER_OFFSETS[n], path_coords[k])]]
        overlap == SelectSeq(connected_coords[1],
                       LAMBDA c : /\ \E n \in 1..6 : connected_coords[2][n] = c
                                  /\ c \notin hexes)
    IN  IF overlap = <<>>
        THEN [ok |-> FALSE, val |-> "IndexError", overlap |-> overlap]
        ELSE [ok |-> TRUE, overlap |-> overlap,
              val |-> Add(_get_hex_center_coords(overlap[1]), <<2, 1>>)]

(***************************************************************************)
(* Boards (the Board collaborator's data).                                 *)
(***************************************************************************)
\* The corners of the hex at h, and its six edges, as _get_hex finds them.
Corner(h, n) == Add(corner_offsets[n], h)
Edge(h, n) == {Corner(h, n), Corner(h, (n % 6) + 1)}
EdgeSeq(h, n) == <<Corner(h, n), Corner(h, (n % 6) + 1)>>

\* The hexes of the standard board, in the order of board.hexes: the centre,
\* the six hexes around it and the twelve around those.
StdHexes ==
    << <<0, 0>>,
       <<1, 1>>, <<2, -1>>, <<1, -2>>, <<-1, -1>>, <<-2, 1>>, <<-1, 2>>,
       <<2, 2>>, <<3, 0>>, <<4, -2>>, <<3, -3>>, <<2, -4>>, <<0, -3>>,
       <<-2, -2>>, <<-3, 0>>, <<-4, 2>>, <<-3, 3>>, <<-2, 4>>, <<0, 3>> >>

SeqRange(s) == {s[i] : i \in 1..Len(s)}

\* The hex sets _get_harbor_coords is tried on: one hex, seven, nineteen.
GeomBoards ==
    {SeqRange(SubSeq(StdHexes, 1, 1)), SeqRange(SubSeq(StdHexes, 1, 7)),
     SeqRange(StdHexes)}

NoGeomCall == [op |-> "none", coords |-> <<>>, hexes |-> {}, ok |-> TRUE,
               val |-> <<>>, overlap |-> <<>>]

GeomInit ==
    /\ palette = DEFAULT_PLAYER_COLORS
    /\ maps = << <<>> >>
    /\ renderers = <<BoardRenderer(1, DEFAULT_HEX_COLORS,
                                   DEFAULT_RESOURCE_COLORS)>>
    /\ hist = <<>>
    /\ last = NoCall
    /\ threads = NoThreads
    /\ board = NoBoard
    /\ render = NoRender
    /\ geom = NoGeomCall

geomFrame == <<palette, maps, renderers, hist, last, threads, board, render>>

\* renderer._get_hex_center_coords(Coords(q, r))
GetHexCenterCoords ==
    /\ \E q, r \in -MaxCoord..MaxCoord :
          geom' = [NoGeomCall EXCEPT
                      !.op = "_get_hex_center_coords",
                      !.coords = <<q, r>>,
                      !.val = _get_hex_center_coords(<<q, r>>)]
    /\ UNCHANGED geomFrame

\* renderer._get_harbor_coords(harbor, board) for a harbor on any edge of
\* any hex of the board, its two corners iterated in either order.
GetHarborCoords ==
    /\ \E hexes \in GeomBoards : \E h \in hexes : \E n \in 1..6 :
       \E flip \in BOOLEAN :
          LET e == EdgeSeq(h, n)
              path_coords == IF flip THEN <<e[2], e[1]>> ELSE e
              res == _get_harbor_coords(path_coords, hexes)
          IN  geom' = [op |-> "_get_harbor_coords", coords |-> path_coords,
                       hexes |-> hexes, ok |-> res.ok, val |-> res.val,
                       overlap |-> res.overlap]
    /\ UNCHANGED geomFrame

NextGeom ==
    \/ GetHexCenterCoords
    \/ GetHarborCoords

SpecGeom == GeomInit /\ [][NextGeom]_vars

(***************************************************************************)
(* Glyph compositor.                                                       *)
(***************************************************************************)
\* board.intersections[c], board.paths[e] and board.hexes[h] of a board b.
Intersection(b, c) ==
    [coords |-> c,
     building |-> IF c \in DOMAIN b.settlements THEN b.settlements[c] ELSE None]
Path(b, e) ==
    [path_coords |-> e,
     building |-> IF e \in DOMAIN b.roads THEN b.roads[e] ELSE None]
HexAt(b, h) ==
    LET k == CHOOSE k \in 1..Len(b.hexes) : b.hexes[k] = h
    IN  [hex_type |-> b.types[k], token_number |-> b.tokens[k]]
\* The keys of board.harbors.
HarborKeys(b) == {SeqRange(b.harbors[k].path_coords) : k \in 1..Len(b.harbors)}

\* str(token_number)
Str(n) == <<"0", "1", "2", "3", "4", "5", "6", "7", "8", "9", "10", "11", "12">>[n + 1]

\* An unstyled "" of the token row (a two-digit token takes its place).
Empty == <<"", "", "">>

\* _get_hex_center(h); token_number 0 stands for None.
_get_hex_center(self, h) ==
    LET space == stylize(" ", "", self.hex_color_map[h.hex_type])
        token_color == IF h.token_number = 6 \/ h.token_number = 8
                       THEN "#FF0000" ELSE "#000000"
    IN  IF h.token_number = 0
        THEN <<space, space, space, space, space>>
        ELSE <<space,
               IF h.token_number < 10 THEN space ELSE Empty,
               stylize(Str(h.token_number), token_color, "#FFFFFF"),
               space, space>>

Glyphs_bottom_mirrored(b, coords) ==
    LET I(char, n) == [kind |-> "I", chars |-> <<char>>,
                       item |-> Intersection(b, Corner(coords, n))]
        P(chars, n) == [kind |-> "P", chars |-> chars,
                        item |-> Path(b, Edge(coords, n))]
    IN  << I(".", 1), P(<<"-", "-">>, 1), I("'", 2), P(<<"-", "-">>, 2), I(".", 3),
           P(<<"|">>, 6), P(<<"|">>, 3),
           I("'", 4), P(<<"-", "-">>, 4), I(".", 5), P(<<"-", "-">>, 5), I("'", 6) >>

\* The twelve corner and edge glyphs _get_hex asks for, in the order the
\* list expression evaluates them (intersections[k] is Corner(coords, k + 1),
\* paths[k] is Edge(coords, k + 1)).
Glyphs(b, coords) ==
    LET I(char, n) == [kind |-> "I", chars |-> <<char>>,
                       item |-> Intersection(b, Corner(coords, n))]
        P(chars, n) == [kind |-> "P", chars |-> chars,
                        item |-> Path(b, Edge(coords, n))]
    IN  << I(".", 1), P(<<"-", "-">>, 1), I("'", 2), P(<<"-", "-">>, 2), I(".", 3),
           P(<<"|">>, 6), P(<<"|">>, 3),
           I("'", 6), P(<<"-", "-">>, 5), I(".", 5), P(<<"-", "-">>, 4), I("'", 4) >>

\* The calls of _get_intersection and _get_path for the glyphs gs, left to
\* right, each seeing the colours the calls before it assigned.
RECURSIVE Draw(_, _, _, _, _)
Draw(self, gs, harbors, pcm, unused) ==
    IF gs = <<>>
    THEN [ok |-> TRUE, val |-> <<>>, pcm |-> pcm, unused |-> unused]
    ELSE LET g == Head(gs)
             one == IF g.kind = "I"
                    THEN _get_intersection(self, g.chars[1], g.item, pcm, unused)
                    ELSE _get_path(self, g.chars, g.item, harbors, pcm, unused)
         IN  IF ~one.ok
             THEN one
             ELSE LET rest == Draw(self, Tail(gs), harbors, one.pcm, one.unused)
                  IN  IF ~rest.ok
                      THEN rest
                      ELSE [rest EXCEPT !.val = <<one.val>> \o @]

\* The three rows of a hex block from its twelve glyphs and its centre.
Rows(g, center) ==
    << g[1] \o g[2] \o g[3] \o g[4] \o g[5],
       g[6] \o center \o g[7],
       g[8] \o g[9] \o g[10] \o g[11] \o g[12] >>

\* _get_hex(board, coords)
_get_hex(self, b, coords, pcm, unused) ==
    LET drawn == Draw(self, Glyphs(b, coords), HarborKeys(b), pcm, unused)
    IN  IF ~drawn.ok
        THEN drawn
        ELSE [drawn EXCEPT
                 !.val = Rows(drawn.val, _get_hex_center(self, HexAt(b, coords)))]

\* _get_harbor(harbor); resource "None" stands for None.  A resource that
\* self.resource_color_map does not hold raises KeyError.
_get_harbor(self, harbor) ==
    IF harbor.resource # "None"
       /\ harbor.resource \notin DOMAIN self.resource_color_map
    THEN [ok |-> FALSE, val |-> "KeyError"]
    ELSE
    LET fore == IF harbor.resource = "None" THEN "#FFFFFF"
                ELSE self.resource_color_map[harbor.resource]
        first == IF harbor.resource = "None" THEN "3" ELSE "2"
    IN  [ok |-> TRUE,
         val |-> << <<stylize(first, fore, WATER_COLOR),
                      stylize(":", fore, WATER_COLOR),
                      stylize("1", fore, WATER_COLOR)>> >>]

(***************************************************************************)
(* Canvas compositor.                                                      *)
(***************************************************************************)
size == <<20, 55>>
center == <<int(size[2], 2) - 3, int(size[1], 2) - 1>>
Water == stylize(" ", "", WATER_COLOR)
Marker == stylize("R", "#FFFFFF", "#000000")

\* The position a Python list of length n gives index i: i itself, i + n for
\* -n <= i < 0, and none (-1: IndexError) otherwise.
Index(i, n) ==
    IF 0 <= i /\ i < n THEN i
    ELSE IF -n <= i /\ i < 0 THEN i + n
    ELSE -1

\* The loops of _copy_into_array from row i, column j on.  A cell is written
\* through Index; the first index out of range ends the call with IndexError.
RECURSIVE CopyFrom(_, _, _, _, _, _, _)
CopyFrom(buf, to_copy, x, y, i, j, overwrite) ==
    IF i >= Len(to_copy)
    THEN [ok |-> TRUE, buf |-> buf]
    ELSE IF j >= Len(to_copy[i + 1])
    THEN CopyFrom(buf, to_copy, x, y, i + 1, 0, overwrite)
    ELSE LET row == Index(y + i, Len(buf))
             col == IF row < 0 THEN -1 ELSE Index(x + j, Len(buf[row + 1]))
         IN  IF row < 0 \/ col < 0
             THEN [ok |-> FALSE, buf |-> buf]
             ELSE CopyFrom(
                     IF overwrite \/ buf[row + 1][col + 1] = Water
                     THEN [buf EXCEPT ![row + 1][col + 1] = to_copy[i + 1][j + 1]]
                     ELSE buf,
                     to_copy, x, y, i, j + 1, overwrite)

_copy_into_array_keeps_first(buf, to_copy, x, y) ==
    CopyFrom(buf, to_copy, x, y, 0, 0, FALSE)

\* _copy_into_array(buf, to_copy, x, y)
_copy_into_array(buf, to_copy, x, y) ==
    CopyFrom(buf, to_copy, x, y, 0, 0, TRUE)

(***************************************************************************)
(* The boards get_board_as_string is given.                                *)
(***************************************************************************)
StdTypes ==
    <<"DESERT",
      "FIELDS", "FOREST", "PASTURE", "HILLS", "MOUNTAINS", "FIELDS",
      "FOREST", "PASTURE", "HILLS", "MOUNTAINS", "FIELDS", "FOREST",
      "PASTURE", "HILLS", "MOUNTAINS", "FIELDS", "FOREST", "PASTURE">>
StdTokens == <<0, 6, 3, 8, 2, 4, 5, 10, 5, 9, 6, 9, 10, 11, 3, 12, 8, 4, 11>>

Harbor(h, n, resource) == [path_coords |-> EdgeSeq(h, n), resource |-> resource]

BoardOf(k, settlements, roads, harbors, robber) ==
    [hexes |-> SubSeq(StdHexes, 1, k), types |-> SubSeq(StdTypes, 1, k),
     tokens |-> SubSeq(StdTokens, 1, k), settlements |-> settlements,
     roads |-> roads, harbors |-> harbors, robber |-> robber]

\* One more hex far from the centre, where the fixed canvas ends.
WithHex(b, h) ==
    [b EXCEPT !.hexes = Append(@, h), !.types = Append(@, "HILLS"),
              !.tokens = Append(@, 5)]

\* The spec's end-to-end board: one FIELDS hex at the origin, token 8, one
\* settlement, no harbors.
SingleBoard ==
    [BoardOf(1, Corner(<<0, 0>>, 1) :> Building(1, "SETTLEMENT"), <<>>, <<>>,
             <<0, 0>>)
        EXCEPT !.types = <<"FIELDS">>, !.tokens = <<8>>]

\* Seven hexes; two harbors beside the same water slot, one of them on an
\* edge with a road.
RingBoard ==
    BoardOf(7,
        Corner(<<1, 1>>, 2) :> Building(1, "CITY")
            @@ Corner(<<0, 0>>, 4) :> Building(2, "SETTLEMENT"),
        Edge(<<1, 1>>, 1) :> Building(1, "ROAD")
            @@ Edge(<<0, 0>>, 4) :> Building(2, "ROAD")
            @@ Edge(<<0, 0>>, 5) :> Building(2, "ROAD"),
        << Harbor(<<1, 1>>, 1, "None"), Harbor(<<2, -1>>, 2, "ORE"),
           Harbor(<<-1, -1>>, 4, "WOOL") >>,
        <<1, 1>>)

\* The standard board: nineteen hexes, nine harbors, three players.
StdBoard ==
    BoardOf(19,
        Corner(<<0, 0>>, 1) :> Building(1, "SETTLEMENT")
            @@ Corner(<<1, 1>>, 3) :> Building(2, "CITY")
            @@ Corner(<<-2, -2>>, 5) :> Building(3, "SETTLEMENT")
            @@ Corner(<<4, -2>>, 1) :> Building(2, "SETTLEMENT"),
        Edge(<<0, 0>>, 1) :> Building(1, "ROAD")
            @@ Edge(<<0, 0>>, 6) :> Building(1, "ROAD")
            @@ Edge(<<1, 1>>, 3) :> Building(2, "ROAD")
            @@ Edge(<<4, -2>>, 1) :> Building(2, "ROAD")
            @@ Edge(<<-2, -2>>, 4) :> Building(3, "ROAD"),
        << Harbor(<<4, -2>>, 1, "None"), Harbor(<<2, 2>>, 2, "GRAIN"),
           Harbor(<<0, 3>>, 2, "None"), Harbor(<<-2, 4>>, 3, "LUMBER"),
           Harbor(<<-4, 2>>, 4, "None"), Harbor(<<-3, 0>>, 5, "BRICK"),
           Harbor(<<-2, -2>>, 5, "None"), Harbor(<<2, -4>>, 6, "WOOL"),
           Harbor(<<3, -3>>, 6, "ORE") >>,
        <<0, 0>>)

\* Boards reaching past the canvas: left of column 0, right of column 54,
\* above row 0, below row 19.
LeftBoard == WithHex(SingleBoard, <<0, -9>>)
RightBoard == WithHex(SingleBoard, <<0, 9>>)
TopBoard == WithHex(SingleBoard, <<8, 2>>)
BottomBoard == WithHex(SingleBoard, <<-8, -2>>)

\* A harbor on an edge between two hexes of the board.
InnerHarborBoard ==
    [RingBoard EXCEPT !.harbors = Append(@, Harbor(<<0, 0>>, 1, "None"))]

\* Five owners: one more than the palette has colours.
CrowdedBoard ==
    [RingBoard EXCEPT !.settlements =
        @ @@ Corner(<<2, -1>>, 1) :> Building(3, "SETTLEMENT")
          @@ Corner(<<1, -2>>, 6) :> Building(4, "CITY")
          @@ Corner(<<-1, -1>>, 5) :> Building(5, "SETTLEMENT")]

Boards ==
    <<SingleBoard, RingBoard, StdBoard, LeftBoard, RightBoard, TopBoard,
      BottomBoard, InnerHarborBoard, CrowdedBoard>>
StdBoardId == CHOOSE k \in 1..Len(Boards) : Boards[k] = StdBoard

\* The orders board.hexes may list the hexes in: the order above rotated by
\* up to MaxShift places, forwards or backwards.
Rotate(s, k) == [n \in 1..Len(s) |-> s[((n - 1 + k) % Len(s)) + 1]]
Reverse(s) == [n \in 1..Len(s) |-> s[Len(s) + 1 - n]]
Orders(s) ==
    UNION {{Rotate(s, k), Reverse(Rotate(s, k))} : k \in 0..MaxShift}

\* The board being rendered; board.hexes lists its hexes in the order the
\* dict board.hexes is iterated.
TheBoard == Boards[board.id]

(***************************************************************************)
(* get_board_as_string, one stamp at a time.                               *)
(***************************************************************************)
RenderInit ==
    /\ palette = DEFAULT_PLAYER_COLORS
    /\ maps = << <<>> >>
    /\ \E rcm \in ResourceColorMaps :
          renderers = <<BoardRenderer(1, DEFAULT_HEX_COLORS, rcm)>>
    /\ hist = <<>>
    /\ last = NoCall
    /\ threads = NoThreads
    /\ \E id \in 1..Len(Boards) : \E order \in Orders(Boards[id].hexes) :
          board = [id |-> id, hexes |-> order]
    /\ render = [pc |-> "start", i |-> 0, buf |-> <<>>, log |-> <<>>]
    /\ geom = NoGeom

renderFrame == <<renderers, hist, last, threads, board, geom>>

\* Where the loops stand after stamp i of phase pc: the next phase with
\* something to stamp.
After(pc, i) ==
    IF pc = "hexes" /\ i < Len(board.hexes) THEN [pc |-> "hexes", i |-> i]
    ELSE IF pc = "hexes" /\ TheBoard.harbors # <<>> THEN [pc |-> "harbors", i |-> 0]
    ELSE IF pc = "harbors" /\ i < Len(TheBoard.harbors) THEN [pc |-> "harbors", i |-> i]
    ELSE IF pc \in {"hexes", "harbors"} THEN [pc |-> "robber", i |-> 0]
    ELSE [pc |-> "done", i |-> 0]

\* The stamp of to_copy at (x, y) and what it leaves of the render.
Stamped(kind, to_copy, x, y) ==
    LET copied == _copy_into_array(render.buf, to_copy, x, y)
        next == After(render.pc, render.i + 1)
    IN  [pc |-> IF copied.ok THEN next.pc ELSE "raised",
         i |-> IF copied.ok THEN next.i ELSE render.i,
         buf |-> copied.buf,
         log |-> Append(render.log, [kind |-> kind, x |-> x, y |-> y,
                                     w |-> Len(to_copy[1]), h |-> Len(to_copy)])]

\* lines 180-186: the canvas of water cells.
Allocate ==
    /\ render.pc = "start"
    /\ render' = [render EXCEPT
                     !.pc = After("hexes", 0).pc,
                     !.buf = [y \in 1..size[1] |-> [x \in 1..size[2] |-> Water]]]
    /\ UNCHANGED <<palette, maps>>
    /\ UNCHANGED renderFrame

\* lines 188-192: one turn of the loop over board.hexes.
StampHex ==
    /\ render.pc = "hexes"
    /\ LET hex_coords == board.hexes[render.i + 1]
           at == _get_hex_center_coords(hex_coords)
           block == _get_hex(renderers[1], TheBoard, hex_coords, Pcm(1), Unused(1))
       IN  /\ palette' = block.unused
           /\ maps' = [maps EXCEPT ![renderers[1].player_color_map] = block.pcm]
           /\ render' = IF block.ok
                        THEN Stamped("hex", block.val,
                                     center[1] + at[1], center[2] + at[2])
                        ELSE [render EXCEPT !.pc = "raised"]
    /\ UNCHANGED renderFrame

\* lines 193-197: one turn of the loop over board.harbors.values().
StampHarbor ==
    /\ render.pc = "harbors"
    /\ LET harbor == TheBoard.harbors[render.i + 1]
           at == _get_harbor_coords(harbor.path_coords, SeqRange(TheBoard.hexes))
           to_copy == _get_harbor(renderers[1], harbor)
       IN  render' = IF at.ok /\ to_copy.ok
                     THEN Stamped("harbor", to_copy.val,
                                  center[1] + at.val[1], center[2] + at.val[2])
                     ELSE [render EXCEPT !.pc = "raised"]
    /\ UNCHANGED <<palette, maps>>
    /\ UNCHANGED renderFrame

\* lines 199-207: the robber marker; the canvas is then joined and returned.
StampRobber ==
    /\ render.pc = "robber"
    /\ LET at == _get_hex_center_coords(TheBoard.robber)
       IN  render' = Stamped("robber", << <<Marker>> >>,
                             center[1] + at[1] + 4, center[2] + at[2] + 1)
    /\ UNCHANGED <<palette, maps>>
    /\ UNCHANGED renderFrame

NextRender ==
    \/ Allocate
    \/ StampHex
    \/ StampHarbor
    \/ StampRobber

SpecRender == RenderInit /\ [][NextRender]_vars

(***************************************************************************)
(* Claims about the colour state.                                          *)
(***************************************************************************)
Range(f) == {f[x] : x \in DOMAIN f}

\* C1: while the palette is not exhausted, any two distinct players of a
\* renderer's player-to-colour map (lazily assigned or pre-set) have distinct
\* colours, and a repeated call for a player returns the colour of that
\* player's first call on the instance.
C1_DistinctAndStable ==
    /\ palette # <<>> =>
          \A r \in 1..Len(renderers) : \A p, q \in DOMAIN Pcm(r) :
              p # q => Pcm(r)[p] # Pcm(r)[q]
    /\ (last.op = "_get_player_color" /\ last.ok) =>
          last.val = hist[last.r].first[last.player]

\* C2: a renderer built with the default configuration starts with the full
\* four-colour palette and an empty map, whatever other instances did, and
\* gives #00c40d to the first player it renders.
C2_InstanceScoped ==
    /\ (last.op = "construct" /\ hist[last.r].dflt) =>
          /\ Unused(last.r) = DEFAULT_PLAYER_COLORS
          /\ DOMAIN Pcm(last.r) = {}
    /\ (last.op = "_get_player_color" /\ hist[last.r].dflt /\ last.first) =>
          /\ last.ok
          /\ last.val = "#00c40d"

\* C3: on any instance a call for a player without a colour succeeds with a
\* palette colour while the instance has assigned fewer than 4 colours, and
\* fails on the 5th such player, leaving the map without that player.
C3_FifthPlayerFails ==
    (last.op = "_get_player_color" /\ ~last.known) =>
        IF last.ok
        THEN /\ last.val \in Range(DEFAULT_PLAYER_COLORS)
             /\ Cardinality(hist[last.r].lazy) <= Len(DEFAULT_PLAYER_COLORS)
        ELSE /\ Cardinality(hist[last.r].lazy) = Len(DEFAULT_PLAYER_COLORS)
             /\ last.player \notin DOMAIN Pcm(last.r)

(***************************************************************************)
(* Claims about _get_path.                                                 *)
(***************************************************************************)
\* C6: the glyph's foreground is the owner's colour if the path holds a road
\* (harbor edge or not), else black on a harbor edge, else #9c7500; the
\* background is the DESERT colour and the characters are kept in order.
C6_PathPrecedence ==
    (last.op = "_get_path" /\ last.ok) =>
        LET chars == last.input[1]
            path == last.input[2]
            harbors == last.input[3]
            fore == IF path.building # None THEN Pcm(last.r)[path.building.owner]
                    ELSE IF path.path_coords \in harbors THEN "#000000"
                    ELSE "#9c7500"
            back == renderers[last.r].hex_color_map["DESERT"]
        IN  /\ Len(last.val) = Len(chars)
            /\ \A i \in 1..Len(chars) : last.val[i] = <<chars[i], fore, back>>

\* C6 witness: a road on a harbor edge was drawn, on a renderer whose DESERT
\* colour is overridden.
C6_Witness ==
    /\ last.op = "_get_path"
    /\ last.ok
    /\ last.input[2].building # None
    /\ last.input[2].path_coords \in last.input[3]
    /\ renderers[last.r].hex_color_map["DESERT"] # DEFAULT_HEX_COLORS["DESERT"]

(***************************************************************************)
(* Claims about concurrent calls.                                          *)
(***************************************************************************)
\* Both calls are for the same player and both found it absent at line 57.
Raced ==
    /\ threads[1].player = threads[2].player
    /\ \A t \in Threads : threads[t].absent

Stored(t) == threads[t].pc \in {"read", "done"}

\* C5: when both calls passed the membership test before either stored, the
\* two pops take two different palette colours; once both have stored, two
\* colours have left the palette and one player has gained an entry, whose
\* colour is one of the two, so the other colour is lost; and each call
\* returns one of the two popped colours.
C5_RaceLosesColour ==
    Raced =>
        /\ (\A t \in Threads : threads[t].popped # "") =>
              threads[1].popped # threads[2].popped
        /\ (\A t \in Threads : Stored(t)) =>
              /\ Len(threads[1].palette0) - Len(palette) = 2
              /\ DOMAIN Pcm(1) = threads[1].keys0 \cup {threads[1].player}
              /\ Pcm(1)[threads[1].player] \in {threads[1].popped, threads[2].popped}
              /\ \E t \in Threads :
                    /\ threads[t].popped \notin Range(palette)
                    /\ threads[t].popped # Pcm(1)[threads[1].player]
        /\ \A t \in Threads : threads[t].pc = "done" =>
              threads[t].ret \in {threads[1].popped, threads[2].popped}

\* C5 witness: both calls returned, for the same player, two different
\* colours.
C5_Witness ==
    /\ Raced
    /\ \A t \in Threads : threads[t].pc = "done"
    /\ threads[1].ret # threads[2].ret

(***************************************************************************)
(* Claims about the projection.                                            *)
(***************************************************************************)
Abs(n) == IF n < 0 THEN -n ELSE n
Sign(n) == IF n < 0 THEN -1 ELSE IF n > 0 THEN 1 ELSE 0

\* round(n / d) as Python rounds: to the nearest integer, ties to even.
Round(n, d) ==
    LET lo == n \div d
        twice == 2 * (n - lo * d)
    IN  IF twice < d THEN lo
        ELSE IF twice > d THEN lo + 1
        ELSE IF lo % 2 = 0 THEN lo ELSE lo + 1

\* C7 as stated: x = 3 * r and y = -round(1.34 * q + 0.67 * r).
C7_Rounds ==
    geom.op = "_get_hex_center_coords" =>
        geom.val = <<3 * geom.coords[2], -Round(Scaled(geom.coords), 100)>>

\* C7 amended: x = 3 * r and y = -int(1.34 * q + 0.67 * r), the fraction
\* dropped towards zero: |y| is the largest integer not above
\* |1.34 * q + 0.67 * r| and y is 0 or has the opposite sign; for hex
\* coordinates (q = r mod 3) this is -round(1.34 * q + 0.67 * r).
C7_Truncates ==
    geom.op = "_get_hex_center_coords" =>
        LET n == Scaled(geom.coords)
            x == geom.val[1]
            y == geom.val[2]
        IN  /\ x = 3 * geom.coords[2]
            /\ 100 * Abs(y) <= Abs(n)
            /\ Abs(n) < 100 * (Abs(y) + 1)
            /\ y = 0 \/ Sign(y) = -Sign(n)
            /\ (geom.coords[1] - geom.coords[2]) % 3 = 0 => y = -Round(n, 100)

\* C7 witness: a projection of a negative sum whose fraction is above one
\* half.
C7_Witness ==
    /\ geom.op = "_get_hex_center_coords"
    /\ Scaled(geom.coords) < 0
    /\ Scaled(geom.coords) % 100 < 50
    /\ Scaled(geom.coords) % 100 > 0

\* The hex slots beside an edge: the lattice points (q = r mod 3) that have
\* both of the edge's corners among their six corners.
SlotRange == -8..8
SlotsBeside(a, b) ==
    {s \in SlotRange \X SlotRange :
        /\ (s[1] - s[2]) % 3 = 0
        /\ \E n \in 1..6 : Corner(s, n) = a
        /\ \E n \in 1..6 : Corner(s, n) = b}

\* C8: for a harbor on an edge with exactly one of its two hex slots on the
\* board there is exactly one candidate, the off-board slot, and the offset
\* is that slot's projection plus (2, 1); on an edge with hexes on both
\* sides the call fails.
C8_OneCandidate ==
    geom.op = "_get_harbor_coords" =>
        LET slots == SlotsBeside(geom.coords[1], geom.coords[2])
            off == slots \ geom.hexes
        IN  /\ Cardinality(slots) = 2
            /\ Cardinality(off) = 1 =>
                  /\ geom.ok
                  /\ Len(geom.overlap) = 1
                  /\ geom.overlap[1] \in off
                  /\ geom.val = Add(_get_hex_center_coords(geom.overlap[1]), <<2, 1>>)
            /\ Cardinality(off) = 0 => ~geom.ok

\* C8 witness: a harbor on a perimeter edge of the 19-hex board got its
\* offset.
C8_Witness ==
    /\ geom.op = "_get_harbor_coords"
    /\ geom.hexes = SeqRange(StdHexes)
    /\ geom.ok
    /\ Len(geom.overlap) = 1
    /\ geom.overlap[1] \notin geom.hexes

(***************************************************************************)
(* Claims about the canvas.                                                *)
(***************************************************************************)
\* The canvas cell (row, column, from 0) that cell (i, j) of a stamp lands in.
Landing(st, i, j) == <<Index(st.y + i, size[1]), Index(st.x + j, size[2])>>
Covers(st, cell) ==
    \E i \in 0..st.h - 1, j \in 0..st.w - 1 : Landing(st, i, j) = cell
CellAt(cell) == render.buf[cell[1] + 1][cell[2] + 1]

\* The n-th stamp of kind among the stamps made so far, from 1.
NthOfKind(k) ==
    Cardinality({m \in 1..k : render.log[m].kind = render.log[k].kind})

\* What stamp k carried, given the colours the players have now.
Carried(k) ==
    LET st == render.log[k] IN
    IF st.kind = "hex"
    THEN _get_hex(renderers[1], TheBoard, board.hexes[NthOfKind(k)],
                  Pcm(1), Unused(1)).val
    ELSE IF st.kind = "harbor"
    THEN _get_harbor(renderers[1], TheBoard.harbors[NthOfKind(k)]).val
    ELSE << <<Marker>> >>

\* C4: a render that returns normally made no stamp with a cell outside rows
\* 0..19 or columns 0..54.
C4_OutsideFails ==
    render.pc = "done" =>
        \A k \in 1..Len(render.log) :
            LET st == render.log[k] IN
            /\ 0 <= st.y /\ st.y + st.h <= size[1]
            /\ 0 <= st.x /\ st.x + st.w <= size[2]

Rank(kind) == IF kind = "hex" THEN 1 ELSE IF kind = "harbor" THEN 2 ELSE 3

\* C9: the stamps are made hexes first, then harbors, then the robber, so no
\* hex is stamped after a harbor or the robber; in the returned canvas every
\* cell of every stamp holds what that stamp carried unless a later stamp
\* landed on it; so the robber's cell holds the marker R, and a harbor's
\* cells hold its glyph unless a later harbor or the robber landed there.
C9_LaterStampWins ==
    /\ render.pc # "start" =>
          \A k, m \in 1..Len(render.log) :
              k < m => Rank(render.log[k].kind) <= Rank(render.log[m].kind)
    /\ render.pc = "done" =>
          /\ Len(render.log) = Len(board.hexes) + Len(TheBoard.harbors) + 1
          /\ \A k \in 1..Len(render.log) :
                LET st == render.log[k]
                    block == Carried(k)
                IN  \A i \in 0..st.h - 1, j \in 0..st.w - 1 :
                        \/ CellAt(Landing(st, i, j)) = block[i + 1][j + 1]
                        \/ \E m \in k + 1..Len(render.log) :
                              Covers(render.log[m], Landing(st, i, j))
          /\ LET at == _get_hex_center_coords(TheBoard.robber)
             IN  CellAt(<<Index(center[2] + at[2] + 1, size[1]),
                          Index(center[1] + at[1] + 4, size[2])>>) = Marker

\* C9 witness: a canvas was returned on which a harbor glyph was replaced by
\* a later harbor's and the marker replaced a cell of a hex block.
C9_Witness ==
    /\ render.pc = "done"
    /\ \E k, m \in 1..Len(render.log) :
          /\ k < m
          /\ render.log[k].kind = "harbor"
          /\ render.log[m].kind = "harbor"
          /\ Covers(render.log[m], Landing(render.log[k], 0, 0))
          /\ Carried(k) # Carried(m)
    /\ \E k \in 1..Len(render.log) :
          /\ render.log[k].kind = "hex"
          /\ Covers(render.log[k], Landing(render.log[Len(render.log)], 0, 0))

\* The board item behind each cell of the block of the hex at coords: the
\* corner, the edge or the hex itself, with the placeholder character.
Items(b, coords) ==
    LET gs == Glyphs(b, coords)
        Key(g) == IF g.kind = "I" THEN {g.item.coords} ELSE g.item.path_coords
        drawn == [k \in 1..Len(gs) |->
                    [n \in 1..Len(gs[k].chars) |->
                        [kind |-> gs[k].kind, key |-> Key(gs[k]),
                         char |-> gs[k].chars[n]]]]
    IN  Rows(drawn, [n \in 1..5 |-> [kind |-> "C", key |-> {coords}, char |-> " "]])

\* Where the block of the hex at coords is stamped: column and row of its
\* top left cell.
BlockAt(coords) ==
    LET at == _get_hex_center_coords(coords)
    IN  <<center[1] + at[1], center[2] + at[2]>>

HexesDone ==
    /\ render.pc \in {"harbors", "robber"}
    /\ Len(render.log) = Len(board.hexes)

\* C10: on the standard board two blocks that cover the same canvas cell
\* paint it for the same corner or edge with the same placeholder, never for
\* a hex centre; and once all hexes are stamped, in whatever order, every
\* cell of every block holds what that block paints with the players'
\* colours, and every other cell is water.
C10_OrderIndependent ==
    (board.id = StdBoardId /\ HexesDone) =>
        LET hs == TheBoard.hexes
            block == [k \in 1..Len(hs) |->
                        _get_hex(renderers[1], TheBoard, hs[k], Pcm(1), Unused(1)).val]
            items == [k \in 1..Len(hs) |-> Items(TheBoard, hs[k])]
            at == [k \in 1..Len(hs) |-> BlockAt(hs[k])]
        IN  /\ \A k, m \in 1..Len(hs) : \A i \in 0..2, j \in 0..6 :
                  LET i2 == at[k][2] + i - at[m][2]
                      j2 == at[k][1] + j - at[m][1]
                  IN  (k # m /\ i2 \in 0..2 /\ j2 \in 0..6) =>
                          /\ items[k][i + 1][j + 1] = items[m][i2 + 1][j2 + 1]
                          /\ items[k][i + 1][j + 1].kind # "C"
            /\ \A k \in 1..Len(hs) : \A i \in 0..2, j \in 0..6 :
                  render.buf[at[k][2] + i + 1][at[k][1] + j + 1]
                      = block[k][i + 1][j + 1]
            /\ \A y \in 0..size[1] - 1, x \in 0..size[2] - 1 :
                  (\A k \in 1..Len(hs) :
                      ~(y - at[k][2] \in 0..2 /\ x - at[k][1] \in 0..6))
                  => render.buf[y + 1][x + 1] = Water

\* C10 witness: all nineteen hexes are stamped, the centre hex not first,
\* and the block of the centre hex shares a settlement's cell with another.
C10_Witness ==
    /\ board.id = StdBoardId
    /\ HexesDone
    /\ board.hexes[1] # <<0, 0>>
    /\ render.buf[BlockAt(<<0, 0>>)[2] + 1][BlockAt(<<0, 0>>)[1] + 1][1] = "s"
    /\ Items(TheBoard, <<0, 0>>)[1][1] = Items(TheBoard, <<1, -2>>)[1][7]

=============================================================================
